---- MODULE Spec2Model ----
(***************************************************************************)
(* multi_string_search: the reversed-prefix trie (TrieNode), the factor    *)
(* oracle built over it (FactorOracle._build_graph) and the sliding-window *)
(* search (FactorOracle.search), with the naive reference search.          *)
(*                                                                         *)
(* A string is a sequence of one-character strings.  A trie is an arena:   *)
(* a function from node id to node, ids being the values handed out by     *)
(* TrieNode.allocate_id from the process-wide TrieNode.counter.            *)
(***************************************************************************)
EXTENDS Integers, Sequences, FiniteSets, TLC

VARIABLES
    counter,            \* TrieNode.counter (class attribute, process-wide)
    pc,                 \* "idle" | "build" | "built" | "search" | "done" | "error"
    query_terms,        \* FactorOracle._query_terms, in iteration order
    prefix_length,      \* FactorOracle._prefix_length
    trie,               \* FactorOracle._trie: [root |-> id, nodes |-> [id -> node]]
    queue,              \* nodes the iteration `for node in root` has yet to yield
    edges,              \* FactorOracle._graph: [<<id, char>> -> id]
    destination_nodes,  \* _build_graph's destination_nodes
    D,                  \* the document passed to search
    document,           \* search's `document` (the remaining suffix)
    remaining,          \* search's `remaining`
    state,              \* search's `state` after the last backwards walk
    advance,            \* search's `advance` after the last backwards walk
    iterations,         \* outer-loop iterations of the running search
    result              \* outcome of the last call: TRUE, FALSE, "ValueError", "none"

vars == <<counter, pc, query_terms, prefix_length, trie, queue, edges,
          destination_nodes, D, document, remaining, state, advance,
          iterations, result>>

----------------------------------------------------------------------------
(* Bounds of the explored inputs *)

MaxTotalLen == 3        \* symbols in a pattern set given to a search
MaxDocLen == 3          \* symbols in a searched document
MaxCounter == 2         \* a new oracle is built only while TrieNode.counter <= this
BuildTotalLen == 4      \* symbols in a pattern set given to the constructor alone
SinglePatLen == 4       \* symbols of the pattern of a one-pattern search
SingleDocLen == 5       \* symbols of the document of a one-pattern search

Alphabet == {"a", "b"}

None == -1

Range(s) == {s[i] : i \in 1..Len(s)}

RECURSIVE SumLen(_)
SumLen(ts) == IF ts = <<>> THEN 0 ELSE Len(Head(ts)) + SumLen(Tail(ts))

Strings(A, n) == UNION {[1..k -> A] : k \in 0..n}

\* a sequence of terms may take one more term p
Fits(ts, p, total) == SumLen(ts) + Len(p) <= total /\ \A i \in 1..Len(ts) : ts[i] # p

RECURSIVE TermSeqsUpTo(_, _, _)
TermSeqsUpTo(A, total, k) ==
    IF k = 0 THEN {<<>>}
    ELSE LET S == TermSeqsUpTo(A, total, k - 1)
         IN  S \cup {Append(x[1], x[2]) :
                        x \in {y \in S \X Strings(A, total) : Fits(y[1], y[2], total)}}

\* every ordering of every set of distinct patterns whose lengths sum to <= total
\* (at most total + 1 of them: the empty pattern and total one-symbol patterns)
TermSeqs(A, total) == TermSeqsUpTo(A, total, total + 1)

----------------------------------------------------------------------------
(* Python string helpers *)

Min(S) == CHOOSE x \in S : \A y \in S : x <= y

\* s[:n]
Take(s, n) == SubSeq(s, 1, Min({n, Len(s)}))

\* s[n:]
Drop(s, n) == SubSeq(s, Min({n, Len(s)}) + 1, Len(s))

\* s[::-1]
Reverse(s) == [i \in 1..Len(s) |-> s[Len(s) + 1 - i]]

\* startswith that forgets the length check: compares what is left of the document
startswith_truncated(doc, term) ==
    SubSeq(doc, 1, Min({Len(doc), Len(term)})) = SubSeq(term, 1, Min({Len(doc), Len(term)}))

\* str.startswith
startswith(doc, term) == Len(term) <= Len(doc) /\ SubSeq(doc, 1, Len(term)) = term

\* term occurs in doc at offset k (0-based)
OccursAt(doc, k, term) ==
    k + Len(term) <= Len(doc) /\ \A i \in 1..Len(term) : doc[k + i] = term[i]

\* term in document
Contains(doc, term) == \E k \in 0..Len(doc) : OccursAt(doc, k, term)

search_naive(doc, terms) == \A i \in 1..Len(terms) : Contains(doc, terms[i])

----------------------------------------------------------------------------
(* TrieNode *)

\* TrieNode.__init__ with allocate_id: the new node takes the current counter
TrieNode(id, parent, char) ==
    [id |-> id, parent |-> parent, char |-> char, children |-> <<>>, terms |-> {}]

\* TrieNode.__contains__ / __getitem__: the child reached on child_char, or None
Child(nodes, node, child_char) ==
    LET hit == {c \in Range(nodes[node].children) : nodes[c].char = child_char}
    IN  IF hit = {} THEN None ELSE CHOOSE c \in hit : TRUE

\* TrieNode.add_child
add_child(nodes, node, child_node) ==
    [nodes EXCEPT ![node].children = Append(@, child_node)]

\* add_term that replaces the terms of the node
add_term_replacing(nodes, node, term) ==
    [nodes EXCEPT ![node].terms = {term}]

\* TrieNode.add_term
add_term(nodes, node, term) ==
    [nodes EXCEPT ![node].terms = @ \cup {term}]

\* the prefix taken without reversing it
ReversedPrefix_forward(term, length) == Take(term, length)

\* term[:prefix_length][::-1]
ReversedPrefix(term, length) == Reverse(Take(term, length))

\* the inner loop of from_terms: walk or extend the trie along chars
RECURSIVE Descend(_, _, _, _)
Descend(nodes, ctr, node, chars) ==
    IF chars = <<>> THEN [nodes |-> nodes, counter |-> ctr, node |-> node]
    ELSE LET char == Head(chars)
             next == Child(nodes, node, char)
         IN  IF next # None
             THEN Descend(nodes, ctr, next, Tail(chars))
             ELSE Descend(add_child(nodes @@ (ctr :> TrieNode(ctr, node, char)),
                                    node, ctr),
                          ctr + 1, ctr, Tail(chars))

\* the outer loop of from_terms
RECURSIVE InsertTerms(_, _, _, _, _)
InsertTerms(root, nodes, ctr, terms, length) ==
    IF terms = <<>> THEN [root |-> root, nodes |-> nodes, counter |-> ctr]
    ELSE LET at == Descend(nodes, ctr, root, ReversedPrefix(Head(terms), length))
         IN  InsertTerms(root, add_term(at.nodes, at.node, Head(terms)),
                         at.counter, Tail(terms), length)

\* TrieNode.from_terms, started with TrieNode.counter = ctr
from_terms(terms, length, ctr) ==
    InsertTerms(ctr, (ctr :> TrieNode(ctr, None, "")), ctr + 1, terms, length)

\* TrieNode.__iter__: breadth-first, children in insertion order
RECURSIVE Iter(_, _)
Iter(nodes, pending) ==
    IF pending = <<>> THEN <<>>
    ELSE <<Head(pending)>> \o Iter(nodes, Tail(pending) \o nodes[Head(pending)].children)

\* the node at the end of a path from the root, or None
RECURSIVE NodeAt(_, _, _)
NodeAt(nodes, node, chars) ==
    IF chars = <<>> \/ node = None THEN node
    ELSE NodeAt(nodes, Child(nodes, node, Head(chars)), Tail(chars))

----------------------------------------------------------------------------
(* FactorOracle._build_graph *)

Get(e, node, char) == IF <<node, char>> \in DOMAIN e THEN e[<<node, char>>] ELSE None

Put(e, node, char, target) == (<<node, char>> :> target) @@ e

\* the upward walk: the path from the nearest node with inbound transitions
RECURSIVE CollectTransitions(_, _, _, _)
CollectTransitions(t, dest, parent, transitions) ==
    IF parent = t.root THEN transitions
    ELSE LET up   == t.nodes[parent].parent
             char == t.nodes[parent].char
             more == IF up # 0 THEN Append(transitions, char) ELSE transitions
         IN  IF up \in dest THEN more
             ELSE CollectTransitions(t, dest, up, more)

\* the forward navigation from the root along the collected path
RECURSIVE Navigate(_, _, _, _)
Navigate(t, e, placement, transitions) ==
    IF transitions = <<>> THEN placement
    ELSE LET got  == Get(e, placement, Head(transitions))
             next == IF got = None THEN t.root ELSE got
         IN  IF next = t.root THEN next
             ELSE Navigate(t, e, next, Tail(transitions))

\* the guard of the internal supplementary write
PlacementFree(t, e, placement, char) ==
    placement # t.root /\ Get(e, placement, char) = None

\* the root fallback without its `not in` guard
RootFree_unguarded(t, e, char) == TRUE

\* the guard of the root fallback write
RootFree(t, e, char) == Get(e, t.root, char) = None

\* one pass of the loop body of _build_graph, for a non-root node
BuildNode(t, g, node) ==
    LET char        == t.nodes[node].char
        parent      == t.nodes[node].parent
        e1          == Put(g.edges, parent, char, node)
        transitions == CollectTransitions(t, g.destination_nodes, parent, <<>>)
        placement   == Navigate(t, e1, t.root, transitions)
        internal    == PlacementFree(t, e1, placement, char)
        e2          == IF internal THEN Put(e1, placement, char, node) ELSE e1
        d2          == IF internal THEN g.destination_nodes \cup {placement}
                       ELSE g.destination_nodes
        fallback    == RootFree(t, e2, char)
        e3          == IF fallback THEN Put(e2, t.root, char, node) ELSE e2
        d3          == IF fallback THEN d2 \cup {node} ELSE d2
    IN  [edges |-> e3, destination_nodes |-> d3]

EmptyGraph == [edges |-> <<>>, destination_nodes |-> {}]

\* _build_graph as a whole: the loop over `for node in root`
RECURSIVE BuildNodes(_, _, _)
BuildNodes(t, g, nodes) ==
    IF nodes = <<>> THEN g
    ELSE BuildNodes(t, BuildNode(t, g, Head(nodes)), Tail(nodes))

build_graph(t) == BuildNodes(t, EmptyGraph, Tail(Iter(t.nodes, <<t.root>>)))

----------------------------------------------------------------------------
(* FactorOracle.search *)

Terms(t, node) == IF node = None THEN {} ELSE t.nodes[node].terms

\* the backwards walk: for char in reversed(window)
RECURSIVE Walk(_, _, _, _, _)
Walk(t, e, from, adv, chars) ==
    IF chars = <<>> THEN [state |-> from, advance |-> adv]
    ELSE LET to == Get(e, from, Head(chars))
         IN  IF to = None \/ Terms(t, to) # {}
             THEN [state |-> to, advance |-> adv - 1]
             ELSE Walk(t, e, to, adv - 1, Tail(chars))

\* the terms of the matched state that the document starts with
Matched(t, at, doc) == {term \in Terms(t, at) : startswith(doc, term)}

\* the loop body without its advance == 0 guard
Nudge_dropped(doc, adv) == doc

\* if advance == 0: document = document[1:]
Nudge(doc, adv) == IF adv = 0 THEN Drop(doc, 1) ELSE doc

\* the condition of `while`, with the `break` on a short window
Continues(length, doc, rem) ==
    LET window == Take(doc, length)
    IN  window # <<>> /\ rem # {} /\ Len(window) >= length

\* one pass of the body of the outer loop
Iteration(t, e, length, doc, rem) ==
    LET w     == Walk(t, e, t.root, length, Reverse(Take(doc, length)))
        moved == Drop(doc, w.advance)
    IN  [state     |-> w.state,
         advance   |-> w.advance,
         remaining |-> rem \ Matched(t, w.state, moved),
         document  |-> Nudge(moved, w.advance)]

\* FactorOracle.search as a whole
RECURSIVE SearchLoop(_, _, _, _, _)
SearchLoop(t, e, length, doc, rem) ==
    IF ~Continues(length, doc, rem) THEN rem = {}
    ELSE LET it == Iteration(t, e, length, doc, rem)
         IN  SearchLoop(t, e, length, it.document, it.remaining)

\* min(map(len, query_terms)), for a non-empty collection
MinLength(terms) == Min({Len(terms[i]) : i \in 1..Len(terms)})

\* search_sbom(doc, terms) in a process whose TrieNode.counter is ctr
search_sbom(doc, terms, ctr) ==
    IF terms = <<>> THEN "ValueError"
    ELSE LET length == MinLength(terms)
             built  == from_terms(terms, length, ctr)
             t      == [root |-> built.root, nodes |-> built.nodes]
             g      == build_graph(t)
         IN  SearchLoop(t, g.edges, length, doc, Range(terms))

----------------------------------------------------------------------------
(* The program as a state machine *)

NoTrie == [root |-> None, nodes |-> <<>>]

Init ==
    /\ counter = 0
    /\ pc = "idle"
    /\ query_terms = <<>>
    /\ prefix_length = 0
    /\ trie = NoTrie
    /\ queue = <<>>
    /\ edges = <<>>
    /\ destination_nodes = {}
    /\ D = <<>>
    /\ document = <<>>
    /\ remaining = {}
    /\ state = None
    /\ advance = 0
    /\ iterations = 0
    /\ result = "none"

NoSearch ==
    /\ D' = <<>>
    /\ document' = <<>>
    /\ remaining' = {}
    /\ state' = None
    /\ advance' = 0
    /\ iterations' = 0

\* FactorOracle.__init__ up to the call of _build_graph
FactorOracle(terms) ==
    /\ pc = "idle"
    /\ counter <= MaxCounter
    /\ query_terms' = terms
    /\ edges' = <<>>
    /\ destination_nodes' = {}
    /\ NoSearch
    /\ IF terms = <<>>
       THEN /\ pc' = "error"            \* min() of an empty sequence
            /\ result' = "ValueError"
            /\ prefix_length' = 0
            /\ trie' = NoTrie
            /\ queue' = <<>>
            /\ UNCHANGED counter
       ELSE LET length == MinLength(terms)
                built  == from_terms(terms, length, counter)
            IN  /\ pc' = "build"
                /\ result' = "none"
                /\ prefix_length' = length
                /\ trie' = [root |-> built.root, nodes |-> built.nodes]
                /\ counter' = built.counter
                /\ queue' = Tail(Iter(built.nodes, <<built.root>>))

\* one pass of the loop of _build_graph
BuildGraphStep ==
    /\ pc = "build"
    /\ queue # <<>>
    /\ LET g == BuildNode(trie, [edges |-> edges,
                                 destination_nodes |-> destination_nodes],
                          Head(queue))
       IN  /\ edges' = g.edges
           /\ destination_nodes' = g.destination_nodes
    /\ queue' = Tail(queue)
    /\ UNCHANGED <<counter, pc, query_terms, prefix_length, trie, D, document,
                   remaining, state, advance, iterations, result>>

\* _build_graph returns and __init__ completes
BuildGraphReturn ==
    /\ pc = "build"
    /\ queue = <<>>
    /\ pc' = "built"
    /\ UNCHANGED <<counter, query_terms, prefix_length, trie, queue, edges,
                   destination_nodes, D, document, remaining, state, advance,
                   iterations, result>>

\* FactorOracle.search is entered
search(doc) ==
    /\ pc = "built"
    /\ pc' = "search"
    /\ D' = doc
    /\ document' = doc
    /\ remaining' = Range(query_terms)
    /\ state' = None
    /\ advance' = 0
    /\ iterations' = 0
    /\ result' = "none"
    /\ UNCHANGED <<counter, query_terms, prefix_length, trie, queue, edges,
                   destination_nodes>>

\* one pass of the outer loop of search
SearchIteration ==
    /\ pc = "search"
    /\ Continues(prefix_length, document, remaining)
    /\ LET it == Iteration(trie, edges, prefix_length, document, remaining)
       IN  /\ state' = it.state
           /\ advance' = it.advance
           /\ remaining' = it.remaining
           /\ document' = it.document
    /\ iterations' = iterations + 1
    /\ UNCHANGED <<counter, pc, query_terms, prefix_length, trie, queue, edges,
                   destination_nodes, D, result>>

\* the outer loop exits and search returns
SearchReturn ==
    /\ pc = "search"
    /\ ~Continues(prefix_length, document, remaining)
    /\ pc' = "done"
    /\ result' = (remaining = {})
    /\ UNCHANGED <<counter, query_terms, prefix_length, trie, queue, edges,
                   destination_nodes, D, document, remaining, state, advance,
                   iterations>>

\* the caller takes the outcome; the oracle and its trie go out of scope
Return ==
    /\ pc \in {"built", "done", "error"}
    /\ pc' = "idle"
    /\ query_terms' = <<>>
    /\ prefix_length' = 0
    /\ trie' = NoTrie
    /\ queue' = <<>>
    /\ edges' = <<>>
    /\ destination_nodes' = {}
    /\ NoSearch
    /\ result' = "none"
    /\ UNCHANGED counter

\* search_sbom(doc, terms) from a caller: the oracle is built, then searched
Queries == TermSeqs(Alphabet, MaxTotalLen)

Documents == Strings(Alphabet, MaxDocLen)

Next ==
    \/ \E terms \in Queries : FactorOracle(terms)
    \/ BuildGraphStep
    \/ BuildGraphReturn
    \/ \E doc \in Documents : search(doc)
    \/ SearchIteration
    \/ SearchReturn
    \/ Return

Spec == Init /\ [][Next]_vars

\* FactorOracle(terms) from a caller that builds oracles and searches nothing
BuildQueries == TermSeqs(Alphabet, BuildTotalLen)

NextBuild ==
    \/ \E terms \in BuildQueries : FactorOracle(terms)
    \/ BuildGraphStep
    \/ BuildGraphReturn
    \/ Return

SpecBuild == Init /\ [][NextBuild]_vars

\* search_sbom(doc, [pattern]) with one non-empty pattern
SingleQueries == {<<p>> : p \in Strings(Alphabet, SinglePatLen) \ {<<>>}}

SingleDocuments == Strings(Alphabet, SingleDocLen)

NextSingle ==
    \/ \E terms \in SingleQueries : FactorOracle(terms)
    \/ BuildGraphStep
    \/ BuildGraphReturn
    \/ \E doc \in SingleDocuments : search(doc)
    \/ SearchIteration
    \/ SearchReturn
    \/ Return

SpecSingle == Init /\ [][NextSingle]_vars

\* every ordering of a set of terms: the orders in which a set may be iterated
Orderings(terms) ==
    {q \in [1..Cardinality(terms) -> terms] : Range(q) = terms}

\* pattern sets searched in every iteration order: the one of the trie-build
\* test, and a pair of overlapping patterns
ScenarioTerms ==
    { {<<"a","b","c">>, <<"a","a","b">>, <<"a","a","b","c">>, <<"b","a","c">>},
      {<<"a","a","a","b","a">>, <<"a","b","a","b","b">>} }

ScenarioQueries == UNION {Orderings(terms) : terms \in ScenarioTerms}

ScenarioDocuments ==
    { <<"a","a","b","c","b","a","c">>,
      <<"b","a","c","a","b">>,
      <<"a","a","a","b","a","b","b">> }

NextScenario ==
    \/ \E terms \in ScenarioQueries : FactorOracle(terms)
    \/ BuildGraphStep
    \/ BuildGraphReturn
    \/ \E doc \in ScenarioDocuments : search(doc)
    \/ SearchIteration
    \/ SearchReturn
    \/ Return

SpecScenario == Init /\ [][NextScenario]_vars

----------------------------------------------------------------------------
(* Properties *)

\* a pattern set the specification calls valid
Valid(terms) == terms # <<>> /\ \A i \in 1..Len(terms) : terms[i] # <<>>

\* the offset in D of the cursor `document`
Cursor == Len(D) - Len(document)

\* an outer-loop pass of search has just been taken
Pass == pc = "search" /\ pc' = "search" /\ iterations' = iterations + 1

\* C2 (search soundness): a search that returns true was given a document that
\* contains every pattern, and a pass removes a pattern from `remaining` only
\* when D contains it at the cursor the pass moved to.
SearchSoundness ==
    /\ [](pc = "done" /\ result = TRUE => search_naive(D, query_terms))
    /\ [][Pass => \A term \in remaining \ remaining' :
                      OccursAt(D, Cursor + advance', term)]_vars

\* C2 witness: a search over two valid patterns has confirmed both
SoundnessWitness ==
    /\ pc = "done" /\ result = TRUE
    /\ Valid(query_terms) /\ Len(query_terms) >= 2
    /\ iterations >= 2

\* C7 (search terminates): from inside the loop, a step either returns a boolean
\* or is a pass that strictly shortens the remaining document, and there are
\* never more passes than D has symbols.
SearchTerminates ==
    [][pc = "search" =>
          \/ pc' = "done" /\ result' \in BOOLEAN
          \/ /\ pc' = "search"
             /\ Len(document') < Len(document)
             /\ iterations' <= Len(D)]_vars

\* C7 witness: a pass has ended with advance = 0 in a state that confirmed
\* nothing, so that only the one-symbol nudge moved the cursor
TerminatesWitness ==
    /\ pc = "search" /\ iterations > 0 /\ advance = 0
    /\ state # None /\ remaining = Range(query_terms)
    /\ Valid(query_terms)
\* the slot of the primary edge that the next pass of _build_graph writes
NextPrimary == <<trie.nodes[Head(queue)].parent, trie.nodes[Head(queue)].char>>

\* a pass of the loop of _build_graph has just been taken
BuildPass == pc = "build" /\ pc' = "build" /\ queue # <<>> /\ queue' = Tail(queue)

\* C9 as claimed (write-once table): no pass of _build_graph replaces a recorded
\* transition target by a different one.
TableWriteOnce ==
    [][BuildPass => \A k \in DOMAIN edges : edges'[k] = edges[k]]_vars

\* C9 as amended: a pass of _build_graph replaces a recorded target only through
\* its unguarded primary write, which puts the trie child over a supplementary
\* entry; the guarded writes replace nothing and a trie edge is never replaced.
TableGuardedWritesOnly ==
    [][BuildPass =>
          \A k \in DOMAIN edges :
              \/ edges'[k] = edges[k]
              \/ /\ k = NextPrimary
                 /\ edges'[k] = Head(queue)
                 /\ trie.nodes[edges[k]].parent # k[1]]_vars

\* C9 witness: the slot of the next primary write already holds a supplementary
\* transition to another node
PrimaryOverSupplementary ==
    /\ pc = "build" /\ queue # <<>>
    /\ Valid(query_terms)
    /\ Get(edges, NextPrimary[1], NextPrimary[2]) \notin {None, Head(queue)}

\* the symbols of the window that the last walk read, left to right
TailRead(doc, adv) == SubSeq(Take(doc, prefix_length), adv + 1, prefix_length)

\* term's length-l prefix
Prefix(term) == Take(term, prefix_length)

\* C10 as claimed (terminal states mark exact prefix matches): a walk that did
\* not die ends in a terms-bearing state exactly when the window tail it read is
\* the length-l prefix of some pattern, and then the document at the new cursor
\* begins with the length-l prefix of every term of that state.
TerminalIffPrefixRead ==
    [][Pass /\ state' # None =>
          /\ Terms(trie, state') # {} <=>
                \E i \in 1..Len(query_terms) :
                    TailRead(document, advance') = Prefix(query_terms[i])
          /\ \A term \in Terms(trie, state') :
                OccursAt(D, Cursor + advance', Prefix(term))]_vars

\* C10 as amended: when the window tail read by a walk is the length-l prefix
\* of patterns of P, the walk ends in the state whose terms are exactly those
\* patterns (the converse fails: a supplementary transition reaches a
\* terms-bearing state on a shorter tail that is no prefix).
PrefixReadReachesTerminal ==
    [][Pass =>
          \A i \in 1..Len(query_terms) :
              TailRead(document, advance') = Prefix(query_terms[i]) =>
                  /\ state' # None
                  /\ Terms(trie, state') =
                        {term \in Range(query_terms) : Prefix(term) = Prefix(query_terms[i])}]_vars

\* C10 witness: a full-window walk has ended in a state carrying two patterns
\* whose common prefix is in D at the cursor
PrefixReadWitness ==
    /\ pc = "search" /\ iterations > 0 /\ advance = 0
    /\ Valid(query_terms)
    /\ Cardinality(Terms(trie, state)) >= 2
    /\ \A term \in Terms(trie, state) : OccursAt(D, Cursor - 1, Prefix(term))

\* C5 as claimed (invalid pattern sets are rejected): no oracle is ever built
\* for, and no search ever answers, an empty pattern set or a set holding an
\* empty pattern.
InvalidRejected ==
    pc \in {"built", "done"} => Valid(query_terms)
\* C1 as claimed (search completeness): a search over a valid pattern set whose
\* patterns all occur in the document returns true.
SearchCompleteness ==
    pc = "done" /\ Valid(query_terms) /\ search_naive(D, query_terms)
        => result = TRUE

\* C3 as claimed (idempotence across calls): the answer of a search over a valid
\* pattern set is the answer search_sbom gives for the same document and terms
\* at every value TrieNode.counter may have when the call is made.
SameAnswerAtEveryCounter ==
    pc = "done" /\ Valid(query_terms)
        => \A ctr \in 0..MaxCounter : search_sbom(D, query_terms, ctr) = result

\* C8 as claimed (dead-walk skips are safe): when a walk dies and the cursor
\* moves forward by advance, no pattern occurs in D at a skipped position.
DeadWalkSkipsNothing ==
    [][Pass /\ state' = None /\ Valid(query_terms) =>
          \A j \in 0..(advance' - 1) : \A term \in Range(query_terms) :
              ~OccursAt(D, Cursor + j, term)]_vars

\* C4 as claimed (order insensitivity): the answer of a search over a valid
\* pattern set is the answer search_sbom gives, from the same counter value,
\* for every other insertion order of the same patterns.
SameAnswerInEveryOrder ==
    pc = "done" /\ Valid(query_terms)
        => \A terms \in Orderings(Range(query_terms)) :
               search_sbom(D, terms, trie.root) = result

\* the terms of the node at the end of a path from the root ({} without one)
TermsAt(chars) == Terms(trie, NodeAt(trie.nodes, trie.root, chars))

\* the oracle at hand was built from the pattern set of the trie-build test
TrieBuildScenario ==
    /\ pc \in {"build", "built", "search", "done"}
    /\ Range(query_terms) =
          {<<"a","b","c">>, <<"a","a","b">>, <<"a","a","b","c">>, <<"b","a","c">>}

====
